---------------------------- MODULE Spec2Model ----------------------------
(***************************************************************************)
(* State-machine model of traffic_editor's Map (gui/map.cpp): the level    *)
(* list, the lifts, the memoized level-to-level transform cache and the    *)
(* operations of Map that read or change them.                             *)
(*                                                                         *)
(* Level indices are 0-based as in the C++ code; TLA+ sequences are        *)
(* 1-based, so levels[i] of the code is At(levels, i) here.                *)
(***************************************************************************)
EXTENDS Integers, Sequences, FiniteSets, TLC

VARIABLES
  building_name,         \* Map::building_name
  reference_level_name,  \* Map::reference_level_name
  levels,                \* Map::levels, std::vector<Level>
  lifts,                 \* Map::lifts, std::vector<Lift>
  transforms,            \* Map::transforms, std::map<LevelPair, Transform>
  cwd,                   \* the process working directory (QDir::setCurrent)
  op,                    \* the last operation of Map that was called
  args,                  \* its arguments
  ret,                   \* what it returned (or wrote to its out-parameter)
  status                 \* how it ended: "ok", "threw", "ub" (it read or wrote
                         \* levels[k] for k outside the vector and returned),
                         \* "crashed" (such an access ended the process)

vars == <<building_name, reference_level_name, levels, lifts, transforms,
          cwd, op, args, ret, status>>

mapState == <<building_name, reference_level_name, levels, lifts, transforms>>

-----------------------------------------------------------------------------
(* Bounds of the model.                                                    *)

MaxLevels == 2      \* add_level is offered while fewer levels than this
MaxItems == 1       \* vertices + models + edges the Map may hold when one is added
MaxFiducials == 1   \* fiducials add_fiducial may place in the Map
MaxLifts == 2       \* lifts the Map may hold (load_yaml appends)

-----------------------------------------------------------------------------
(* double: a rational n/d in lowest terms, or NaN, +Inf, -Inf.  Zero is    *)
(* +0: every divisor the code forms is a distance, a count or a mean of    *)
(* non-negative ratios.                                                    *)

RECURSIVE GCD(_, _)
GCD(a, b) == IF b = 0 THEN a ELSE GCD(b, a % b)

Abs(n) == IF n < 0 THEN -n ELSE n

Rat(n, d) ==
  LET g == GCD(Abs(n), Abs(d))
      s == IF d < 0 THEN -1 ELSE 1
  IN  [k |-> "fin", n |-> s * (n \div g), d |-> s * (d \div g)]

Fl(n) == [k |-> "fin", n |-> n, d |-> 1]
NaN == [k |-> "nan", n |-> 0, d |-> 1]
PosInf == [k |-> "inf", n |-> 1, d |-> 1]
NegInf == [k |-> "inf", n |-> -1, d |-> 1]

Sgn(a) == IF a.n > 0 THEN 1 ELSE IF a.n < 0 THEN -1 ELSE 0
InfOf(s) == IF s < 0 THEN NegInf ELSE PosInf

FAdd(a, b) ==
  CASE a.k = "nan" \/ b.k = "nan" -> NaN
    [] a.k = "inf" /\ b.k = "inf" -> IF a.n = b.n THEN a ELSE NaN
    [] a.k = "inf" -> a
    [] b.k = "inf" -> b
    [] OTHER -> Rat(a.n * b.d + b.n * a.d, a.d * b.d)

FNeg(a) == IF a.k = "nan" THEN NaN ELSE [a EXCEPT !.n = -a.n]

FSub(a, b) == FAdd(a, FNeg(b))

FMul(a, b) ==
  CASE a.k = "nan" \/ b.k = "nan" -> NaN
    [] a.k = "inf" \/ b.k = "inf" ->
         IF Sgn(a) * Sgn(b) = 0 THEN NaN ELSE InfOf(Sgn(a) * Sgn(b))
    [] OTHER -> Rat(a.n * b.n, a.d * b.d)

FDiv(a, b) ==
  CASE a.k = "nan" \/ b.k = "nan" -> NaN
    [] a.k = "inf" /\ b.k = "inf" -> NaN
    [] a.k = "inf" -> InfOf(IF Sgn(b) < 0 THEN -Sgn(a) ELSE Sgn(a))
    [] b.k = "inf" -> Fl(0)
    [] b.n = 0 -> IF a.n = 0 THEN NaN ELSE InfOf(Sgn(a))
    [] OTHER -> Rat(a.n * b.d, a.d * b.n)

\* sqrt on the squares the model forms: every point of the model lies on the
\* line through (0,0) and (3,4), so every squared distance is a perfect square
Sqrt(n) == CHOOSE r \in 0..n : r * r = n

At(s, i) == s[i + 1]
InRange(s, i) == 0 <= i /\ i < Len(s)

-----------------------------------------------------------------------------
(* The entities a Level owns.                                              *)

Vertex(x, y) == [x |-> x, y |-> y, selected |-> FALSE]

\* Fiducial(x, y): the two-argument constructor leaves the name empty
Fiducial(x, y) == [x |-> x, y |-> y, name |-> ""]

Model(x, y, yaw, model_name, instance_name) ==
  [x |-> x, y |-> y, yaw |-> yaw, model_name |-> model_name,
   instance_name |-> instance_name]

Edge(start_idx, end_idx, type) ==
  [start_idx |-> start_idx, end_idx |-> end_idx, type |-> type]

\* Fiducial::distance: the Euclidean norm of the difference
distance(f, g) ==
  Fl(Sqrt((f.x - g.x) * (f.x - g.x) + (f.y - g.y) * (f.y - g.y)))

-----------------------------------------------------------------------------
(* The transform estimate and its cache.                                   *)

LevelPair(from_idx, to_idx) == <<from_idx, to_idx>>

Transform(scale, dx, dy) == [scale |-> scale, dx |-> dx, dy |-> dy]

EmptyCache == [p \in {} |-> NaN]

CachePut(T, key, t) ==
  [p \in DOMAIN T \cup {key} |-> IF p = key THEN t ELSE T[p]]

\* the fiducials in common: for each fiducial of the from level, in order, the
\* first fiducial of the to level that has its name
common_fiducials(F, G) ==
  LET has(f) == \E j \in 1..Len(G) : G[j].name = f.name
      first(f) == G[CHOOSE j \in 1..Len(G) :
                      /\ G[j].name = f.name
                      /\ \A k \in 1..(j - 1) : G[k].name # f.name]
      kept == SelectSeq(F, has)
  IN  [i \in 1..Len(kept) |-> <<kept[i], first(kept[i])>>]

\* the index pairs f0_idx < f1_idx in the order the nested loops visit them
RECURSIVE IndexPairs(_, _, _)
IndexPairs(i, j, n) ==
  IF i > n THEN << >>
  ELSE IF j > n THEN IndexPairs(i + 1, i + 2, n)
  ELSE <<(<<i, j>>)>> \o IndexPairs(i, j + 1, n)

RECURSIVE FSum(_)
FSum(s) == IF s = << >> THEN Fl(0) ELSE FAdd(s[1], FSum(Tail(s)))

\* The(S): the element of a singleton.  Written The({e(x) : x \in {v}}), it
\* evaluates v once, where a LET would evaluate it at every use
The(S) == CHOOSE x \in S : TRUE

\* the (from, to) distances between each two common fiducials
fiducial_distances(fiducials) ==
  LET ip == IndexPairs(1, 2, Len(fiducials))
  IN  [q \in 1..Len(ip) |->
         <<distance(fiducials[ip[q][1]][1], fiducials[ip[q][2]][1]),
           distance(fiducials[ip[q][1]][2], fiducials[ip[q][2]][2])>>]

\* the mean as it would be if each estimate were the from-distance over the
\* to-distance
relative_scale_inverted(distances) ==
  FDiv(FSum([q \in 1..Len(distances) |->
               FDiv(distances[q][1], distances[q][2])]),
       Fl(Len(distances)))

\* the mean of the relative scale estimates
relative_scale(distances) ==
  FDiv(FSum([q \in 1..Len(distances) |->
               FDiv(distances[q][2], distances[q][1])]),
       Fl(Len(distances)))

\* the mean of the translation estimates, once the scale is known
translation(fiducials, scale) ==
  LET n == Len(fiducials)
      trans_x_sum ==
        FSum([q \in 1..n |->
                FSub(Fl(fiducials[q][2].x), FMul(Fl(fiducials[q][1].x), scale))])
      trans_y_sum ==
        FSum([q \in 1..n |->
                FSub(Fl(fiducials[q][2].y), FMul(Fl(fiducials[q][1].y), scale))])
  IN  Transform(scale, FDiv(trans_x_sum, Fl(n)), FDiv(trans_y_sum, Fl(n)))

compute_transform(L, from_idx, to_idx) ==
  The({ The({ translation(fiducials, scale) :
                scale \in {relative_scale(fiducial_distances(fiducials))} }) :
          fiducials \in {common_fiducials(At(L, from_idx).fiducials,
                                          At(L, to_idx).fiducials)} })

\* get_transform as it would be if it stored the estimate under the reversed
\* pair
get_transform_reversed_key(T, L, from_level_idx, to_level_idx) ==
  LET level_pair == LevelPair(from_level_idx, to_level_idx)
  IN  IF level_pair \notin DOMAIN T
      THEN The({ [t |-> t,
                  transforms |->
                    CachePut(T, LevelPair(to_level_idx, from_level_idx), t)] :
                   t \in {compute_transform(L, from_level_idx, to_level_idx)} })
      ELSE [t |-> T[level_pair], transforms |-> T]

\* get_transform on in-range indices: the cached entry, or the estimate, which
\* is then stored under exactly (from_level_idx, to_level_idx)
get_transform(T, L, from_level_idx, to_level_idx) ==
  LET level_pair == LevelPair(from_level_idx, to_level_idx)
  IN  IF level_pair \notin DOMAIN T
      THEN The({ [t |-> t, transforms |-> CachePut(T, level_pair, t)] :
                   t \in {compute_transform(L, from_level_idx, to_level_idx)} })
      ELSE [t |-> T[level_pair], transforms |-> T]

clear_transform_cache(T) == EmptyCache

\* get_reference_level_idx as it would be if it answered -1 for a name that
\* no level has
get_reference_level_idx_or_none(L, rn) ==
  IF rn = "" THEN 0
  ELSE IF \E i \in 1..Len(L) : L[i].name = rn
       THEN (CHOOSE i \in 1..Len(L) :
               /\ L[i].name = rn
               /\ \A k \in 1..(i - 1) : L[k].name # rn) - 1
       ELSE -1

get_reference_level_idx(L, rn) ==
  IF rn = "" THEN 0
  ELSE IF \E i \in 1..Len(L) : L[i].name = rn
       THEN (CHOOSE i \in 1..Len(L) :
               /\ L[i].name = rn
               /\ \A k \in 1..(i - 1) : L[k].name # rn) - 1
       ELSE 0

\* for (i) for (j) get_transform(i, j), from pair (i, j) on
RECURSIVE FillCache(_, _, _, _)
FillCache(T, L, i, j) ==
  IF i >= Len(L) THEN T
  ELSE IF j >= Len(L) THEN FillCache(T, L, i + 1, 0)
  ELSE The({ FillCache(g.transforms, L, i, j + 1) :
               g \in {get_transform(T, L, i, j)} })

\* the rescaling loop as it would be if it divided by the scale of the
\* transform from level i to the reference level
RECURSIVE Rescale_to_reference(_, _, _, _, _, _)
Rescale_to_reference(T, L, rn, ref_idx, ref_scale, i) ==
  IF i >= Len(L) THEN [levels |-> L, transforms |-> T]
  ELSE IF i # get_reference_level_idx(L, rn)
  THEN The({ The({ Rescale_to_reference(g.transforms, L2, rn, ref_idx,
                                        ref_scale, i + 1) :
                     L2 \in {[L EXCEPT ![i + 1].drawing_meters_per_pixel =
                                         FDiv(ref_scale, g.t.scale)]} }) :
               g \in {get_transform(T, L, i, ref_idx)} })
  ELSE Rescale_to_reference(T, L, rn, ref_idx, ref_scale, i + 1)

\* the rescaling loop as it would be if it divided the level's own
\* drawing_meters_per_pixel, where the code divides the reference level's
RECURSIVE Rescale_own_scale(_, _, _, _, _, _)
Rescale_own_scale(T, L, rn, ref_idx, ref_scale, i) ==
  IF i >= Len(L) THEN [levels |-> L, transforms |-> T]
  ELSE IF i # get_reference_level_idx(L, rn)
  THEN The({ The({ Rescale_own_scale(g.transforms, L2, rn, ref_idx,
                                     ref_scale, i + 1) :
                     L2 \in {[L EXCEPT ![i + 1].drawing_meters_per_pixel =
                                         FDiv(@, g.t.scale)]} }) :
               g \in {get_transform(T, L, ref_idx, i)} })
  ELSE Rescale_own_scale(T, L, rn, ref_idx, ref_scale, i + 1)

\* the loop that rewrites drawing_meters_per_pixel, from level i on
RECURSIVE Rescale(_, _, _, _, _, _)
Rescale(T, L, rn, ref_idx, ref_scale, i) ==
  IF i >= Len(L) THEN [levels |-> L, transforms |-> T]
  ELSE IF i # get_reference_level_idx(L, rn)
  THEN The({ The({ Rescale(g.transforms, L2, rn, ref_idx, ref_scale, i + 1) :
                     L2 \in {[L EXCEPT ![i + 1].drawing_meters_per_pixel =
                                         FDiv(ref_scale, g.t.scale)]} }) :
               g \in {get_transform(T, L, ref_idx, i)} })
  ELSE Rescale(T, L, rn, ref_idx, ref_scale, i + 1)

\* calculate_all_transforms as it would be without its clear_transform_cache
calculate_all_transforms_keeping(T, L, rn) ==
  The({ IF ~InRange(L, get_reference_level_idx(L, rn))
        THEN [levels |-> L, transforms |-> T1, oob |-> TRUE]
        ELSE The({ [levels |-> r.levels, transforms |-> r.transforms,
                    oob |-> FALSE] :
                     r \in {Rescale(T1, L, rn, ref_idx,
                                    At(L, ref_idx).drawing_meters_per_pixel, 0) :
                              ref_idx \in {get_reference_level_idx(L, rn)}} }) :
          T1 \in {FillCache(T, L, 0, 0)} })

\* calculate_all_transforms.  With no level at all, levels[ref_idx] is
\* levels[0] of an empty vector: oob tells the caller so, and the read value
\* is used by no iteration of the loop
calculate_all_transforms(T, L, rn) ==
  The({ IF ~InRange(L, get_reference_level_idx(L, rn))
        THEN [levels |-> L, transforms |-> T1, oob |-> TRUE]
        ELSE The({ [levels |-> r.levels, transforms |-> r.transforms,
                    oob |-> FALSE] :
                     r \in {Rescale(T1, L, rn, ref_idx,
                                    At(L, ref_idx).drawing_meters_per_pixel, 0) :
                              ref_idx \in {get_reference_level_idx(L, rn)}} }) :
          T1 \in {FillCache(clear_transform_cache(T), L, 0, 0)} })

-----------------------------------------------------------------------------
(* Levels, lifts and documents the model draws its inputs from.            *)

\* the k-th point of the line through (0,0) and (3,4)
PtX(k) == 3 * k
PtY(k) == 4 * k

Ks == {0, 1}             \* points an editing call may be given
QueryKs == {0, 2}        \* points a hit-test may be given
Yaws == {0, 1}
ModelNames == {"chair"}
EdgeTypes == {"lane"}
EdgeEnds == {<<0, 1>>}   \* (start, end) vertex indices an edge may be given
ItemTypes == {"VERTEX", "FIDUCIAL", "MODEL"}

NamedFiducial(name, k) == [x |-> PtX(k), y |-> PtY(k), name |-> name]

\* the body of a level in a document: everything but the name, which is the key
LevelBody(mpp, vertices, fiducials, polygons) ==
  [drawing_meters_per_pixel |-> mpp, vertices |-> vertices,
   fiducials |-> fiducials, models |-> << >>, edges |-> << >>,
   polygons |-> polygons]

BodyA == LevelBody(Rat(1, 20), << >>,
                   <<NamedFiducial("a", 0), NamedFiducial("b", 1)>>, << >>)
BodyB == LevelBody(Rat(1, 20), << >>,
                   <<NamedFiducial("a", 0), NamedFiducial("b", 2)>>, << >>)
BodyC == LevelBody(Rat(1, 10), <<Vertex(PtX(1), PtY(1))>>,
                   <<NamedFiducial("a", 1), NamedFiducial("b", 2)>>,
                   <<(<<0>>)>>)
BodyBare == LevelBody(Rat(1, 10), << >>, <<NamedFiducial("a", 0)>>, << >>)

\* Level::from_yaml(name, node)
Level_from_yaml(name, body) ==
  [name |-> name,
   drawing_meters_per_pixel |-> body.drawing_meters_per_pixel,
   vertices |-> body.vertices, fiducials |-> body.fiducials,
   models |-> body.models, edges |-> body.edges, polygons |-> body.polygons]

\* Lift::from_yaml(name, node)
Lift_from_yaml(name, body) ==
  [name |-> name, reference_floor_name |-> body.reference_floor_name]

\* a YAML node that is absent, a scalar, or a mapping given as the sequence of
\* its (key, value) entries in the order the iterator visits them
Absent == [kind |-> "absent", entries |-> << >>]
Scalar == [kind |-> "scalar", entries |-> << >>]
Mapping(entries) == [kind |-> "map", entries |-> entries]

\* a string-valued key of the document: << >> when absent, <<s>> when present
Document(loadable, dir, bn, rn, lv, lf) ==
  [loadable |-> loadable, dir |-> dir, building_name |-> bn,
   reference_level_name |-> rn, levels |-> lv, lifts |-> lf]

EntryA == <<"A", BodyA>>
EntryB == <<"B", BodyB>>
EntryC == <<"C", BodyC>>
EntryBareA == <<"A", BodyBare>>
EntryLift == <<"lift1", [reference_floor_name |-> "A"]>>

GoodDir == "/maps"
BadDir == "/gone"

\* documents whose top-level 'levels' is missing or is no mapping
BadLevelsDocs ==
  { Document(TRUE, GoodDir, bn, rn, lv, Mapping(<<EntryLift>>)) :
      bn \in {<< >>, <<"hq">>}, rn \in {<< >>, <<"B">>},
      lv \in {Absent, Scalar} }

\* documents load_yaml reads to the end
GoodDocs ==
  { Document(TRUE, GoodDir, <<"hq">>, <<"B">>, Mapping(lv), lf) :
      lv \in {<<EntryA, EntryB>>, <<EntryB, EntryA, EntryC>>},
      lf \in {Absent, Mapping(<<EntryLift>>)} }
  \cup
  { Document(TRUE, GoodDir, << >>, << >>, Mapping(lv), lf) :
      lv \in {<<EntryBareA>>, << >>}, lf \in {Absent, Scalar} }

\* documents that cannot be parsed, or lie in a directory that cannot be entered
UnreadableDocs ==
  { Document(FALSE, GoodDir, <<"hq">>, << >>, Mapping(<<EntryA>>), Absent),
    Document(TRUE, BadDir, <<"hq">>, << >>, Mapping(<<EntryA>>), Absent) }

Docs == BadLevelsDocs \cup GoodDocs \cup UnreadableDocs

\* documents of two levels, with and without a reference level named
CacheDocs ==
  { Document(TRUE, GoodDir, << >>, rn, Mapping(lv), Absent) :
      rn \in {<< >>, <<"B">>},
      lv \in {<<EntryA, EntryB>>, <<EntryBareA, EntryB>>} }

\* fiducials a, b, c of a surveyed floor, and the same fiducials on a drawing
\* of it at scale num/den, moved by (tx, ty)
SurveyFiducials ==
  <<NamedFiducial("a", 0), NamedFiducial("b", 2), NamedFiducial("c", 4)>>

Redrawn(F, num, den, tx, ty) ==
  [i \in 1..Len(F) |->
     [x |-> (num * F[i].x) \div den + tx,
      y |-> (num * F[i].y) \div den + ty, name |-> F[i].name]]

Reordered(F) == [i \in 1..Len(F) |-> F[Len(F) + 1 - i]]

\* levels P and Q whose shared fiducials a similarity relates: P with all
\* three or with a, b and a fiducial of its own; Q at scale 1/2, 2 or 3, its
\* fiducials in another order and, once, followed by a second fiducial "a"
SurveyLevels ==
  { Level_from_yaml("P", LevelBody(Rat(1, 20), << >>, SurveyFiducials, << >>)),
    Level_from_yaml("P", LevelBody(Rat(1, 20), << >>,
                                   <<NamedFiducial("a", 0),
                                     NamedFiducial("z", 1),
                                     NamedFiducial("b", 2)>>, << >>)),
    Level_from_yaml("Q", LevelBody(Rat(1, 10), << >>,
                                   Redrawn(SurveyFiducials, 1, 2, 0, 0),
                                   << >>)),
    Level_from_yaml("Q", LevelBody(Rat(1, 10), << >>,
                                   Reordered(Redrawn(SurveyFiducials,
                                                     2, 1, 1, -2)), << >>)),
    Level_from_yaml("Q", LevelBody(Rat(1, 10), << >>,
                                   Reordered(Redrawn(SurveyFiducials,
                                                     3, 1, -3, 5))
                                     \o Redrawn(<<NamedFiducial("a", 1)>>,
                                                3, 1, -3, 5), << >>)) }

\* documents of one level whose lift lift1 is on floor A in the one and on
\* floor B in the other
EntryLiftB == <<"lift1", [reference_floor_name |-> "B"]>>

SaveDocs ==
  { Document(TRUE, GoodDir, <<"hq">>, rn, Mapping(<<EntryBareA>>),
             Mapping(<<lf>>)) :
      rn \in {<< >>, <<"B">>}, lf \in {EntryLift, EntryLiftB} }

\* levels the editor may hand to add_level
NewLevels ==
  { Level_from_yaml("A", BodyA), Level_from_yaml("B", BodyB),
    Level_from_yaml("A", BodyBare) }

EditLevels == { Level_from_yaml("A", BodyBare), Level_from_yaml("C", BodyC) }

-----------------------------------------------------------------------------
(* Map::Map and the operations on the whole Map.                           *)

Init ==
  /\ building_name = "building"
  /\ reference_level_name = ""
  /\ levels = << >>
  /\ lifts = << >>
  /\ transforms = EmptyCache
  /\ cwd = "/"
  /\ op = "Map"
  /\ args = << >>
  /\ ret = "void"
  /\ status = "ok"

\* an access to levels[k] outside the vector is undefined behaviour: the
\* process ends there ("crashed"), or the call returns with whatever it read
\* or wrote lying outside the Map ("ub").  The model records which and follows
\* the program no further
Alive == status \notin {"ub", "crashed"}

OutOfRangeAccess ==
  /\ status' \in {"ub", "crashed"}
  /\ ret' = "garbage"
  /\ UNCHANGED <<mapState, cwd>>

Returns(value) ==
  /\ status' = "ok"
  /\ ret' = value

Called(name, arguments) ==
  /\ Alive
  /\ op' = name
  /\ args' = arguments

\* level indices a hit-test / an editing call may be given
LevelIdxs == -1..(Len(levels) + 1)
EditLevelIdxs == 0..(Len(levels) + 1)

\* load_yaml as it would be without its call of calculate_all_transforms
load_yaml_without_transforms(doc) ==
  LET same == [building_name |-> building_name,
               reference_level_name |-> reference_level_name,
               levels |-> levels, lifts |-> lifts, transforms |-> transforms,
               cwd |-> cwd, status |-> "threw", oob |-> FALSE]
      bn == IF doc.building_name # << >>
            THEN doc.building_name[1] ELSE building_name
      rn == IF doc.reference_level_name # << >>
            THEN doc.reference_level_name[1] ELSE reference_level_name
      yl == doc.levels.entries
      y_lifts == IF doc.lifts.kind = "map" THEN doc.lifts.entries ELSE << >>
      new_lifts ==
        lifts \o [i \in 1..Len(y_lifts) |->
                    Lift_from_yaml(y_lifts[i][1], y_lifts[i][2])]
  IN  IF ~doc.loadable \/ doc.dir = BadDir THEN same
      ELSE IF doc.levels.kind # "map"
      THEN [same EXCEPT !.building_name = bn, !.reference_level_name = rn,
                        !.cwd = doc.dir]
      ELSE [building_name |-> bn, reference_level_name |-> rn,
            levels |-> [i \in 1..Len(yl) |->
                          Level_from_yaml(yl[i][1], yl[i][2])],
            lifts |-> new_lifts, transforms |-> transforms, cwd |-> doc.dir,
            status |-> "ok", oob |-> FALSE]

\* the state load_yaml leaves of the Map M, and how it ends
load_yaml_into(M, doc) ==
  LET same == [building_name |-> M.building_name,
               reference_level_name |-> M.reference_level_name,
               levels |-> M.levels, lifts |-> M.lifts,
               transforms |-> M.transforms,
               cwd |-> M.cwd, status |-> "threw", oob |-> FALSE]
      bn == IF doc.building_name # << >>
            THEN doc.building_name[1] ELSE M.building_name
      rn == IF doc.reference_level_name # << >>
            THEN doc.reference_level_name[1] ELSE M.reference_level_name
      yl == doc.levels.entries
      y_lifts == IF doc.lifts.kind = "map" THEN doc.lifts.entries ELSE << >>
      new_lifts ==
        M.lifts \o [i \in 1..Len(y_lifts) |->
                    Lift_from_yaml(y_lifts[i][1], y_lifts[i][2])]
  IN  IF ~doc.loadable \/ doc.dir = BadDir THEN same
      ELSE IF doc.levels.kind # "map"
      THEN [same EXCEPT !.building_name = bn, !.reference_level_name = rn,
                        !.cwd = doc.dir]
      ELSE The({ [building_name |-> bn, reference_level_name |-> rn,
                  levels |-> c.levels, lifts |-> new_lifts,
                  transforms |-> c.transforms, cwd |-> doc.dir,
                  status |-> "ok", oob |-> c.oob] :
                   c \in { calculate_all_transforms(M.transforms, new_levels,
                                                    rn) :
                           new_levels \in
                             {[i \in 1..Len(yl) |->
                                 Level_from_yaml(yl[i][1], yl[i][2])]} } })

\* the Map as it is, and as Map::Map constructs it
ThisMap ==
  [building_name |-> building_name,
   reference_level_name |-> reference_level_name, levels |-> levels,
   lifts |-> lifts, transforms |-> transforms, cwd |-> cwd]

NewMap ==
  [building_name |-> "building", reference_level_name |-> "",
   levels |-> << >>, lifts |-> << >>, transforms |-> EmptyCache, cwd |-> cwd]

\* the state load_yaml leaves, and how it ends
load_yaml(doc) == load_yaml_into(ThisMap, doc)

LoadYaml(D) ==
  \E doc \in D :
    \E r \in {load_yaml(doc)} :
        /\ Len(r.lifts) <= MaxLifts
        /\ Called("load_yaml", doc)
        /\ building_name' = r.building_name
        /\ reference_level_name' = r.reference_level_name
        /\ levels' = r.levels
        /\ lifts' = r.lifts
        /\ transforms' = r.transforms
        /\ cwd' = r.cwd
        /\ ret' = "void"
        /\ status' \in (IF r.oob THEN {"ub", "crashed"} ELSE {r.status})

clear ==
  [building_name |-> "", levels |-> << >>, transforms |-> transforms]

Clear ==
  \E r \in {clear} :
  /\ Called("clear", << >>)
  /\ building_name' = r.building_name
  /\ levels' = r.levels
  /\ transforms' = r.transforms
  /\ Returns("void")
  /\ UNCHANGED <<reference_level_name, lifts, cwd>>

\* add_level as it would be without its search for the name
add_level_unchecked(new_level) ==
  [levels |-> Append(levels, new_level), transforms |-> transforms]

\* add_level as it would be if it emptied the transform cache
add_level_invalidating(new_level) ==
  IF \E i \in 1..Len(levels) : levels[i].name = new_level.name
  THEN [levels |-> levels, transforms |-> transforms]
  ELSE [levels |-> Append(levels, new_level), transforms |-> EmptyCache]

add_level(new_level) ==
  IF \E i \in 1..Len(levels) : levels[i].name = new_level.name
  THEN [levels |-> levels, transforms |-> transforms]
  ELSE [levels |-> Append(levels, new_level), transforms |-> transforms]

AddLevel(S) ==
  \E new_level \in S :
    /\ \/ Len(levels) < MaxLevels
       \/ \E i \in 1..Len(levels) : levels[i].name = new_level.name
    /\ Called("add_level", new_level)
    /\ \E r \in {add_level(new_level)} :
         /\ levels' = r.levels
         /\ transforms' = r.transforms
    /\ Returns("void")
    /\ UNCHANGED <<building_name, reference_level_name, lifts, cwd>>

ClearTransformCache ==
  /\ Called("clear_transform_cache", << >>)
  /\ transforms' = clear_transform_cache(transforms)
  /\ Returns("void")
  /\ UNCHANGED <<building_name, reference_level_name, levels, lifts, cwd>>

\* what compute_transform may leave in t when it read a level outside the vector
GarbageTransforms == {Transform(NaN, NaN, NaN), Transform(Fl(1), Fl(0), Fl(0))}

GetTransform ==
  \E a \in 0..Len(levels), b \in 0..Len(levels) :
    /\ Called("get_transform", <<a, b>>)
    /\ UNCHANGED <<building_name, reference_level_name, levels, lifts, cwd>>
    /\ IF LevelPair(a, b) \in DOMAIN transforms
          \/ (InRange(levels, a) /\ InRange(levels, b))
       THEN \E g \in {get_transform(transforms, levels, a, b)} :
                /\ transforms' = g.transforms
                /\ Returns(g.t)
       ELSE \/ /\ status' = "crashed"
               /\ ret' = "garbage"
               /\ UNCHANGED transforms
            \/ \E t \in GarbageTransforms :
                 /\ status' = "ub"
                 /\ ret' = t
                 /\ transforms' = CachePut(transforms, LevelPair(a, b), t)

CalculateAllTransforms ==
  \E c \in {calculate_all_transforms(transforms, levels, reference_level_name)} :
      /\ Called("calculate_all_transforms", << >>)
      /\ levels' = c.levels
      /\ transforms' = c.transforms
      /\ ret' = "void"
      /\ status' \in (IF c.oob THEN {"ub", "crashed"} ELSE {"ok"})
      /\ UNCHANGED <<building_name, reference_level_name, lifts, cwd>>

GetReferenceLevelIdx ==
  /\ Called("get_reference_level_idx", << >>)
  /\ Returns(get_reference_level_idx(levels, reference_level_name))
  /\ UNCHANGED <<mapState, cwd>>

-----------------------------------------------------------------------------
(* The editing operations, which take a level index.                       *)

ItemsOf(level) == Len(level.vertices) + Len(level.models) + Len(level.edges)
UnnamedOf(level) == Len(SelectSeq(level.fiducials, LAMBDA f : f.name = ""))

RECURSIVE TotalItems(_)
TotalItems(L) == IF L = << >> THEN 0 ELSE ItemsOf(L[1]) + TotalItems(Tail(L))

RECURSIVE TotalUnnamed(_)
TotalUnnamed(L) ==
  IF L = << >> THEN 0 ELSE UnnamedOf(L[1]) + TotalUnnamed(Tail(L))

\* room left for one more item / one more fiducial placed by the editor
RoomForItem == TotalItems(levels) < MaxItems
RoomForFiducial == TotalUnnamed(levels) < MaxFiducials

EditFrame == UNCHANGED <<building_name, reference_level_name, lifts, cwd>>

add_vertex(level_index, x, y) ==
  [levels EXCEPT ![level_index + 1].vertices = Append(@, Vertex(x, y))]

AddVertex ==
  \E level_index \in EditLevelIdxs, k \in Ks :
    /\ InRange(levels, level_index) => RoomForItem
    /\ Called("add_vertex", <<level_index, PtX(k), PtY(k)>>)
    /\ IF level_index >= Len(levels)
       THEN Returns("void") /\ UNCHANGED <<mapState, cwd>>
       ELSE IF ~InRange(levels, level_index)
       THEN OutOfRangeAccess
       ELSE /\ levels' = add_vertex(level_index, PtX(k), PtY(k))
            /\ Returns("void")
            /\ UNCHANGED transforms
            /\ EditFrame

add_fiducial(level_index, x, y) ==
  [levels |-> [levels EXCEPT ![level_index + 1].fiducials =
                               Append(@, Fiducial(x, y))],
   transforms |-> transforms]

AddFiducial ==
  \E level_index \in EditLevelIdxs, k \in Ks :
    /\ InRange(levels, level_index) => RoomForFiducial
    /\ Called("add_fiducial", <<level_index, PtX(k), PtY(k)>>)
    /\ IF level_index >= Len(levels)
       THEN Returns("void") /\ UNCHANGED <<mapState, cwd>>
       ELSE IF ~InRange(levels, level_index)
       THEN OutOfRangeAccess
       ELSE /\ \E r \in {add_fiducial(level_index, PtX(k), PtY(k))} :
                 /\ levels' = r.levels
                 /\ transforms' = r.transforms
            /\ Returns("void")
            /\ EditFrame

add_edge(level_index, start_vertex_index, end_vertex_index, edge_type) ==
  [levels EXCEPT ![level_index + 1].edges =
     Append(@, Edge(start_vertex_index, end_vertex_index, edge_type))]

AddEdge ==
  \E level_index \in EditLevelIdxs, se \in EdgeEnds, ty \in EdgeTypes :
    /\ InRange(levels, level_index) => RoomForItem
    /\ Called("add_edge", <<level_index, se[1], se[2], ty>>)
    /\ IF level_index >= Len(levels)
       THEN Returns("void") /\ UNCHANGED <<mapState, cwd>>
       ELSE IF ~InRange(levels, level_index)
       THEN OutOfRangeAccess
       ELSE /\ levels' = add_edge(level_index, se[1], se[2], ty)
            /\ Returns("void")
            /\ UNCHANGED transforms
            /\ EditFrame

add_model(level_idx, x, y, yaw, model_name) ==
  [levels EXCEPT ![level_idx + 1].models =
     Append(@, Model(x, y, yaw, model_name, model_name))]

AddModel ==
  \E level_idx \in EditLevelIdxs, k \in Ks, yaw \in {0}, nm \in ModelNames :
    /\ InRange(levels, level_idx) => RoomForItem
    /\ Called("add_model", <<level_idx, PtX(k), PtY(k), yaw, nm>>)
    /\ IF level_idx >= Len(levels)
       THEN Returns("void") /\ UNCHANGED <<mapState, cwd>>
       ELSE IF ~InRange(levels, level_idx)
       THEN OutOfRangeAccess
       ELSE /\ levels' = add_model(level_idx, PtX(k), PtY(k), yaw, nm)
            /\ Returns("void")
            /\ UNCHANGED transforms
            /\ EditFrame

set_model_yaw(level_idx, model_idx, yaw) ==
  [levels EXCEPT ![level_idx + 1].models[model_idx + 1].yaw = yaw]

SetModelYaw ==
  \E level_idx \in EditLevelIdxs, model_idx \in {0, 1}, yaw \in Yaws :
    /\ Called("set_model_yaw", <<level_idx, model_idx, yaw>>)
    /\ IF level_idx >= Len(levels)
       THEN Returns("void") /\ UNCHANGED <<mapState, cwd>>
       ELSE IF ~InRange(levels, level_idx)
               \/ ~InRange(At(levels, level_idx).models, model_idx)
       THEN OutOfRangeAccess
       ELSE /\ levels' = set_model_yaw(level_idx, model_idx, yaw)
            /\ Returns("void")
            /\ UNCHANGED transforms
            /\ EditFrame

\* Level::delete_selected: drops what is selected, tells whether it could
Level_delete_selected(level) ==
  [level |-> [level EXCEPT !.vertices = SelectSeq(@, LAMBDA v : ~v.selected)],
   ok |-> TRUE]

delete_selected(level_index) ==
  LET d == Level_delete_selected(At(levels, level_index))
  IN  [levels |-> [levels EXCEPT ![level_index + 1] = d.level],
       transforms |-> transforms,
       ret |-> d.ok]

DeleteSelected ==
  \E level_index \in EditLevelIdxs :
    /\ Called("delete_selected", <<level_index>>)
    /\ IF level_index >= Len(levels)
       THEN Returns(FALSE) /\ UNCHANGED <<mapState, cwd>>
       ELSE IF ~InRange(levels, level_index)
       THEN OutOfRangeAccess
       ELSE /\ \E r \in {delete_selected(level_index)} :
                 /\ levels' = r.levels
                 /\ transforms' = r.transforms
                 /\ Returns(r.ret)
            /\ EditFrame

\* the editing surface marks a vertex as selected
SelectVertex ==
  \E level_index \in 0..(Len(levels) - 1) :
    \E v \in 1..Len(At(levels, level_index).vertices) :
      /\ Called("select", <<level_index, v - 1>>)
      /\ levels' = [levels EXCEPT ![level_index + 1].vertices[v].selected = TRUE]
      /\ Returns("void")
      /\ UNCHANGED transforms
      /\ EditFrame

\* Level::remove_polygon_vertex: drops the vertex_idx-th vertex of a polygon
Level_remove_polygon_vertex(level, polygon_idx, vertex_idx) ==
  IF InRange(level.polygons, polygon_idx)
     /\ InRange(At(level.polygons, polygon_idx), vertex_idx)
  THEN LET pg == At(level.polygons, polygon_idx)
       IN  [level EXCEPT !.polygons[polygon_idx + 1] =
              SubSeq(pg, 1, vertex_idx) \o SubSeq(pg, vertex_idx + 2, Len(pg))]
  ELSE level

\* the level indices remove_polygon_vertex and polygon_edge_drag_press let
\* through to levels[level_idx]
PolygonLevelGuard(level_idx) == ~(level_idx < 0 \/ level_idx > Len(levels))

RemovePolygonVertex ==
  \E level_idx \in EditLevelIdxs, polygon_idx \in {0, 1}, vertex_idx \in {0} :
    /\ Called("remove_polygon_vertex", <<level_idx, polygon_idx, vertex_idx>>)
    /\ IF ~PolygonLevelGuard(level_idx)
       THEN Returns("void") /\ UNCHANGED <<mapState, cwd>>
       ELSE IF ~InRange(levels, level_idx)
       THEN OutOfRangeAccess
       ELSE /\ levels' =
                 [levels EXCEPT ![level_idx + 1] =
                    Level_remove_polygon_vertex(@, polygon_idx, vertex_idx)]
            /\ Returns("void")
            /\ UNCHANGED transforms
            /\ EditFrame

-----------------------------------------------------------------------------
(* The hit-tests.                                                          *)

\* 1e100, the "nothing found yet" distance, and its square root: numbers
\* larger than every distance between two points of the model
HUGE == 100000000
SQRT_HUGE == 10000

Dist2(p, x, y) == (x - p.x) * (x - p.x) + (y - p.y) * (y - p.y)

\* the first index (0-based) of an item at the least distance below the bound,
\* or -1: the scan that keeps an item only when it is strictly nearer
NearestIdx(items, x, y, bound2) ==
  IF \E i \in 1..Len(items) : Dist2(items[i], x, y) < bound2
  THEN (CHOOSE i \in 1..Len(items) :
          /\ Dist2(items[i], x, y) < bound2
          /\ \A j \in 1..Len(items) :
               /\ Dist2(items[i], x, y) <= Dist2(items[j], x, y)
               /\ j < i => Dist2(items[j], x, y) > Dist2(items[i], x, y)) - 1
  ELSE -1

NearestDist(items, x, y, none) ==
  LET i == NearestIdx(items, x, y, HUGE)
  IN  IF i = -1 THEN none ELSE Sqrt(Dist2(At(items, i), x, y))

find_nearest_vertex_index(level_index, x, y) ==
  LET vs == At(levels, level_index).vertices
  IN  [index |-> NearestIdx(vs, x, y, HUGE),
       distance |-> NearestDist(vs, x, y, SQRT_HUGE)]

FindNearestVertexIndex ==
  \E level_index \in LevelIdxs, k \in QueryKs :
    /\ Called("find_nearest_vertex_index", <<level_index, PtX(k), PtY(k)>>)
    /\ IF ~InRange(levels, level_index)
       THEN OutOfRangeAccess
       ELSE /\ Returns(find_nearest_vertex_index(level_index, PtX(k), PtY(k)))
            /\ UNCHANGED <<mapState, cwd>>

\* NearestItem as it is constructed: no index, every distance 1e100
NearestItem ==
  [vertex_idx |-> -1, vertex_dist |-> HUGE,
   fiducial_idx |-> -1, fiducial_dist |-> HUGE,
   model_idx |-> -1, model_dist |-> HUGE]

nearest_items(level_index, x, y) ==
  LET level == At(levels, level_index)
  IN  [vertex_idx |-> NearestIdx(level.vertices, x, y, HUGE),
       vertex_dist |-> NearestDist(level.vertices, x, y, HUGE),
       fiducial_idx |-> NearestIdx(level.fiducials, x, y, HUGE),
       fiducial_dist |-> NearestDist(level.fiducials, x, y, HUGE),
       model_idx |-> NearestIdx(level.models, x, y, HUGE),
       model_dist |-> NearestDist(level.models, x, y, HUGE)]

NearestItems ==
  \E level_index \in LevelIdxs, k \in QueryKs :
    /\ Called("nearest_items", <<level_index, PtX(k), PtY(k)>>)
    /\ IF level_index >= Len(levels)
       THEN Returns(NearestItem) /\ UNCHANGED <<mapState, cwd>>
       ELSE IF ~InRange(levels, level_index)
       THEN OutOfRangeAccess
       ELSE /\ Returns(nearest_items(level_index, PtX(k), PtY(k)))
            /\ UNCHANGED <<mapState, cwd>>

Thresholds == {1, 6}

nearest_item_index_if_within_distance(level_index, x, y, threshold, item_type) ==
  LET level == At(levels, level_index)
      items == CASE item_type = "VERTEX" -> level.vertices
                 [] item_type = "FIDUCIAL" -> level.fiducials
                 [] item_type = "MODEL" -> level.models
      min_index == NearestIdx(items, x, y, HUGE)
  IN  IF NearestDist(items, x, y, SQRT_HUGE) < threshold
      THEN min_index ELSE -1

NearestItemIndexIfWithinDistance ==
  \E level_index \in LevelIdxs, k \in QueryKs, th \in Thresholds,
     item_type \in ItemTypes :
    /\ Called("nearest_item_index_if_within_distance",
              <<level_index, PtX(k), PtY(k), th, item_type>>)
    /\ IF level_index >= Len(levels)
       THEN Returns(-1) /\ UNCHANGED <<mapState, cwd>>
       ELSE IF ~InRange(levels, level_index)
       THEN OutOfRangeAccess
       ELSE /\ Returns(nearest_item_index_if_within_distance(
                         level_index, PtX(k), PtY(k), th, item_type))
            /\ UNCHANGED <<mapState, cwd>>

\* Level::polygon_edge_drag_press: a vertex of the polygon, or -1
Level_polygon_edge_drag_press(level, polygon_idx) ==
  IF InRange(level.polygons, polygon_idx)
  THEN {-1} \cup {i - 1 : i \in 1..Len(At(level.polygons, polygon_idx))}
  ELSE {-1}

PolygonEdgeDragPress ==
  \E level_idx \in LevelIdxs, polygon_idx \in {0, 1}, k \in QueryKs :
    /\ Called("polygon_edge_drag_press",
              <<level_idx, polygon_idx, PtX(k), PtY(k)>>)
    /\ IF ~PolygonLevelGuard(level_idx)
       THEN Returns(-1) /\ UNCHANGED <<mapState, cwd>>
       ELSE IF ~InRange(levels, level_idx)
       THEN OutOfRangeAccess
       ELSE /\ \E r \in Level_polygon_edge_drag_press(
                          At(levels, level_idx), polygon_idx) : Returns(r)
            /\ UNCHANGED <<mapState, cwd>>

-----------------------------------------------------------------------------
(* save_yaml and the writer of ordered maps.                               *)

\* the keys the model's documents have, as std::string's operator< orders
\* them (byte-wise: capitals before small letters, '1' before 's')
KeyOrder ==
  <<"A", "B", "C", "P", "Q", "building_name", "drawing_meters_per_pixel",
    "edges", "fiducials", "levels", "lift1", "lifts", "models", "polygons",
    "reference_floor_name", "reference_level_name", "vertices">>

KeyRank(key) == CHOOSE i \in 1..Len(KeyOrder) : KeyOrder[i] = key

StrLess(a, b) == KeyRank(a) < KeyRank(b)

\* a scalar node and what it holds
ScalarOf(value) == [kind |-> "scalar", entries |-> << >>, value |-> value]

\* node[key], for a key the map node has
node_get(entries, key) ==
  entries[CHOOSE i \in 1..Len(entries) : entries[i][1] = key][2]

\* node[key] = value: the entry of the key is replaced, a new key is added
node_set(entries, key, value) ==
  IF \E i \in 1..Len(entries) : entries[i][1] = key
  THEN [i \in 1..Len(entries) |->
          IF entries[i][1] = key THEN <<key, value>> ELSE entries[i]]
  ELSE Append(entries, <<key, value>>)

\* Level::to_yaml and Lift::to_yaml: a map node of the fields, the name left
\* to the key
Level_to_yaml(level) ==
  Mapping(<< <<"drawing_meters_per_pixel",
               ScalarOf(level.drawing_meters_per_pixel)>>,
             <<"vertices", ScalarOf(level.vertices)>>,
             <<"fiducials", ScalarOf(level.fiducials)>>,
             <<"models", ScalarOf(level.models)>>,
             <<"edges", ScalarOf(level.edges)>>,
             <<"polygons", ScalarOf(level.polygons)>> >>)

Lift_to_yaml(lift) ==
  Mapping(<< <<"reference_floor_name",
               ScalarOf(lift.reference_floor_name)>> >>)

\* for (item : items) node[item.name] = item.to_yaml(), from item i on; items
\* holds for each item its name and its node
RECURSIVE node_fill(_, _, _)
node_fill(entries, items, i) ==
  IF i > Len(items) THEN entries
  ELSE node_fill(node_set(entries, items[i][1], items[i][2]), items, i + 1)

\* the keys of a map node, collected and sorted
sorted_keys(entries) ==
  LET keys == {entries[i][1] : i \in 1..Len(entries)}
  IN  [i \in 1..Cardinality(keys) |->
         CHOOSE k \in keys :
           Cardinality({j \in keys : StrLess(j, k)}) = i - 1]

\* what write_yaml_node emits for a node: a map with its keys in sorted
\* order, each value emitted the same way; anything else as it is
RECURSIVE write_yaml_node(_)
write_yaml_node(node) ==
  IF node.kind = "map"
  THEN The({ Mapping([i \in 1..Len(keys) |->
                        <<keys[i],
                          write_yaml_node(node_get(node.entries, keys[i]))>>]) :
               keys \in {sorted_keys(node.entries)} })
  ELSE node

\* the node save_yaml builds
save_yaml_node(bn, rn, L, lf) ==
  LET y1 == node_set(<< >>, "building_name", ScalarOf(bn))
      y2 == IF rn # ""
            THEN node_set(y1, "reference_level_name", ScalarOf(rn)) ELSE y1
      y3 == node_set(y2, "levels",
                     Mapping(node_fill(<< >>,
                                       [i \in 1..Len(L) |->
                                          <<L[i].name, Level_to_yaml(L[i])>>],
                                       1)))
      y4 == node_set(y3, "lifts",
                     Mapping(node_fill(<< >>,
                                       [i \in 1..Len(lf) |->
                                          <<lf[i].name, Lift_to_yaml(lf[i])>>],
                                       1)))
  IN  Mapping(y4)

\* the document save_yaml writes to the file
save_yaml(bn, rn, L, lf) == write_yaml_node(save_yaml_node(bn, rn, L, lf))

SaveYaml ==
  /\ Called("save_yaml", << >>)
  /\ Returns([ok |-> TRUE,
              file |-> save_yaml(building_name, reference_level_name,
                                 levels, lifts)])
  /\ UNCHANGED <<mapState, cwd>>

\* YAML::LoadFile of a file save_yaml wrote in the directory dir: the
\* document, its maps in the order of the file
has_key(node, key) ==
  node.kind = "map" /\ \E i \in 1..Len(node.entries) : node.entries[i][1] = key

string_at(node, key) ==
  IF has_key(node, key)
  THEN <<node_get(node.entries, key).value>> ELSE << >>

fields_of(node) ==
  [key \in {node.entries[i][1] : i \in 1..Len(node.entries)} |->
     node_get(node.entries, key).value]

items_at(node, key) ==
  IF ~has_key(node, key) THEN Absent
  ELSE LET m == node_get(node.entries, key)
       IN  IF m.kind # "map" THEN Scalar
           ELSE Mapping([i \in 1..Len(m.entries) |->
                           <<m.entries[i][1], fields_of(m.entries[i][2])>>])

LoadFile(file, dir) ==
  Document(TRUE, dir, string_at(file, "building_name"),
           string_at(file, "reference_level_name"),
           items_at(file, "levels"), items_at(file, "lifts"))

-----------------------------------------------------------------------------
(* transform_between_levels, by index and by name.                         *)

QPointF(x, y) == <<x, y>>

\* points a caller may hand to transform_between_levels
FromPoints == { QPointF(Fl(PtX(k)), Fl(PtY(k))) : k \in Ks }

\* level names a caller may hand to it; no level is ever named "Z"
QueryNames == {"A", "B", "Z"}

\* t applied to a point: (scale * x + dx, scale * y + dy)
apply_transform(t, from_point) ==
  QPointF(FAdd(FMul(t.scale, from_point[1]), t.dx),
          FAdd(FMul(t.scale, from_point[2]), t.dy))

\* the by-index overload as it would be if it asked for the transform of the
\* reversed pair
transform_between_levels_reversed(T, L, from_level_idx, from_point, to_level_idx) ==
  IF ~InRange(L, from_level_idx) \/ ~InRange(L, to_level_idx)
  THEN [ok |-> FALSE, to_point |-> from_point, transforms |-> T]
  ELSE The({ [ok |-> TRUE, to_point |-> apply_transform(g.t, from_point),
              transforms |-> g.transforms] :
               g \in {get_transform(T, L, to_level_idx, from_level_idx)} })

\* the by-index overload: what it returns, what it writes to to_point and the
\* cache it leaves
transform_between_levels(T, L, from_level_idx, from_point, to_level_idx) ==
  IF ~InRange(L, from_level_idx) \/ ~InRange(L, to_level_idx)
  THEN [ok |-> FALSE, to_point |-> from_point, transforms |-> T]
  ELSE The({ [ok |-> TRUE, to_point |-> apply_transform(g.t, from_point),
              transforms |-> g.transforms] :
               g \in {get_transform(T, L, from_level_idx, to_level_idx)} })

\* the loop of the by-name overload: it has no break, so the index it ends
\* with is that of the last level of the name, -1 when there is none
level_idx_named(L, name) ==
  IF \E i \in 1..Len(L) : L[i].name = name
  THEN (CHOOSE i \in 1..Len(L) :
          /\ L[i].name = name
          /\ \A k \in (i + 1)..Len(L) : L[k].name # name) - 1
  ELSE -1

transform_between_levels_by_name(T, L, from_level_name, from_point, to_level_name) ==
  The({ IF idx[1] < 0 \/ idx[2] < 0
        THEN [ok |-> FALSE, to_point |-> from_point, transforms |-> T]
        ELSE transform_between_levels(T, L, idx[1], from_point, idx[2]) :
          idx \in {<<level_idx_named(L, from_level_name),
                     level_idx_named(L, to_level_name)>>} })

TransformBetweenLevels ==
  \E from_level_idx \in LevelIdxs, to_level_idx \in LevelIdxs,
     from_point \in FromPoints :
    \E r \in {transform_between_levels(transforms, levels, from_level_idx,
                                       from_point, to_level_idx)} :
      /\ Called("transform_between_levels",
                <<from_level_idx, from_point, to_level_idx>>)
      /\ transforms' = r.transforms
      /\ Returns([ok |-> r.ok, to_point |-> r.to_point])
      /\ UNCHANGED <<building_name, reference_level_name, levels, lifts, cwd>>

TransformBetweenLevelsByName ==
  \E from_level_name \in QueryNames, to_level_name \in QueryNames,
     from_point \in FromPoints :
    \E r \in {transform_between_levels_by_name(
                 transforms, levels, from_level_name, from_point,
                 to_level_name)} :
      /\ Called("transform_between_levels_by_name",
                <<from_level_name, from_point, to_level_name>>)
      /\ transforms' = r.transforms
      /\ Returns([ok |-> r.ok, to_point |-> r.to_point])
      /\ UNCHANGED <<building_name, reference_level_name, levels, lifts, cwd>>

-----------------------------------------------------------------------------
(* Specifications.                                                         *)

\* loading, clearing and adding levels
NextLoad ==
  \/ LoadYaml(Docs)
  \/ AddLevel(NewLevels)
  \/ Clear

SpecLoad == Init /\ [][NextLoad]_vars

\* the editing operations on a Map whose cache the caller filled
NextEdit ==
  \/ AddLevel(EditLevels)
  \/ CalculateAllTransforms
  \/ AddVertex
  \/ AddFiducial
  \/ AddEdge
  \/ AddModel
  \/ SetModelYaw
  \/ SelectVertex
  \/ DeleteSelected
  \/ RemovePolygonVertex

SpecEdit == Init /\ [][NextEdit]_vars

\* the hit-tests
NextQuery ==
  \/ AddLevel(EditLevels)
  \/ AddVertex
  \/ FindNearestVertexIndex
  \/ NearestItems
  \/ NearestItemIndexIfWithinDistance
  \/ PolygonEdgeDragPress

SpecQuery == Init /\ [][NextQuery]_vars

\* the transform cache
NextCache ==
  \/ LoadYaml(CacheDocs)
  \/ AddFiducial
  \/ GetTransform
  \/ ClearTransformCache
  \/ CalculateAllTransforms

SpecCache == Init /\ [][NextCache]_vars

\* transform_between_levels on loaded levels
NextTransform ==
  \/ LoadYaml(CacheDocs)
  \/ ClearTransformCache
  \/ TransformBetweenLevels
  \/ TransformBetweenLevelsByName

SpecTransform == Init /\ [][NextTransform]_vars

\* the reference level of Maps that were loaded, cleared and added to
NextReference ==
  \/ LoadYaml(CacheDocs)
  \/ AddLevel(NewLevels)
  \/ Clear
  \/ GetReferenceLevelIdx

SpecReference == Init /\ [][NextReference]_vars

\* the estimate between surveyed levels
NextEstimate ==
  \/ AddLevel(SurveyLevels)
  \/ GetTransform
  \/ ClearTransformCache

SpecEstimate == Init /\ [][NextEstimate]_vars

\* saving Maps that were loaded and added to
NextSave ==
  \/ LoadYaml(SaveDocs)
  \/ AddLevel(NewLevels)
  \/ Clear
  \/ SaveYaml

SpecSave == Init /\ [][NextSave]_vars

\* every operation; the properties below are checked under the four
\* specifications above, each of which keeps to the operations it is about
Next ==
  NextLoad \/ NextEdit \/ NextQuery \/ NextCache \/ NextTransform
    \/ NextReference \/ NextEstimate \/ NextSave

Spec == Init /\ [][Next]_vars

-----------------------------------------------------------------------------
(* Properties.                                                             *)

AllPairs(n) == (0..(n - 1)) \X (0..(n - 1))

Estimate(L, p) == compute_transform(L, p[1], p[2])

DocLevelNames(doc) == [i \in 1..Len(doc.levels.entries) |-> doc.levels.entries[i][1]]
DocLifts(doc) ==
  IF doc.lifts.kind = "map"
  THEN [i \in 1..Len(doc.lifts.entries) |->
          Lift_from_yaml(doc.lifts.entries[i][1], doc.lifts.entries[i][2])]
  ELSE << >>
LevelNamesOf(L) == [i \in 1..Len(L) |-> L[i].name]

\* C1: load_yaml of a document whose top-level 'levels' is missing or is no
\* mapping throws and leaves building_name, reference_level_name, levels,
\* lifts and the transform cache as they were before the call.
C1_LoadFailureIsolation ==
  [][(op' = "load_yaml" /\ args'.loadable /\ args'.dir # BadDir
        /\ args'.levels.kind # "map")
       => (status' = "threw" /\ mapState' = mapState)]_vars

\* C2: after a load_yaml that returned, the Map holds what the document
\* describes and nothing of what it held before: the level names are the
\* document's keys, the lifts are the document's lifts, and a name the
\* document gives is the Map's.
C2_LoadReplacesWholeMap ==
  [][(op' = "load_yaml" /\ status' = "ok")
       => /\ LevelNamesOf(levels') = DocLevelNames(args')
          /\ lifts' = DocLifts(args')
          /\ args'.building_name # << >>
               => building_name' = args'.building_name[1]
          /\ args'.reference_level_name # << >>
               => reference_level_name' = args'.reference_level_name[1]]_vars

MutationOps ==
  {"add_vertex", "add_fiducial", "add_edge", "add_model", "delete_selected",
   "set_model_yaw", "remove_polygon_vertex"}

\* C3: a mutation called with a level index >= the number of levels reads no
\* levels[level_index], raises nothing and leaves the Map unchanged.
C3_MutationBoundsSafety ==
  [][(op' \in MutationOps /\ args'[1] >= Len(levels))
       => (status' = "ok" /\ mapState' = mapState)]_vars

QueryOps ==
  {"find_nearest_vertex_index", "nearest_items",
   "nearest_item_index_if_within_distance", "polygon_edge_drag_press"}

\* C4: a hit-test called with a level index outside 0..n-1 returns its "not
\* found" value (-1, or the NearestItem as constructed), reads no
\* levels[level_index] and leaves the Map unchanged.
C4_QueryBoundsSafety ==
  [][(op' \in QueryOps /\ ~InRange(levels, args'[1]))
       => /\ status' = "ok"
          /\ mapState' = mapState
          /\ CASE op' = "nearest_items" -> ret' = NearestItem
               [] op' = "find_nearest_vertex_index" -> ret'.index = -1
               [] OTHER -> ret' = -1]_vars

\* C5: get_transform(a, b) on valid indices returns the cached entry for
\* exactly (a, b) and leaves the cache as it is when there is one; otherwise
\* it returns the estimate for the current levels[a] and levels[b], adds that
\* value under (a, b) and changes no other entry.
C5_GetTransformMemoizes ==
  [][(op' = "get_transform" /\ InRange(levels, args'[1])
        /\ InRange(levels, args'[2]))
       => LET key == LevelPair(args'[1], args'[2])
          IN  /\ status' = "ok"
              /\ levels' = levels
              /\ IF key \in DOMAIN transforms
                 THEN ret' = transforms[key] /\ transforms' = transforms
                 ELSE /\ ret' = Estimate(levels, key)
                      /\ DOMAIN transforms' = DOMAIN transforms \cup {key}
                      /\ transforms'[key] = ret'
                      /\ \A p \in DOMAIN transforms :
                           transforms'[p] = transforms[p]]_vars

\* a get_transform that found the pair cached, with a value the current
\* levels no longer give
C5_Witness ==
  /\ op = "get_transform"
  /\ status = "ok"
  /\ InRange(levels, args[1]) /\ InRange(levels, args[2])
  /\ ret = transforms[LevelPair(args[1], args[2])]
  /\ ret # Estimate(levels, args)

\* C6: in every state each cached entry (i, j) has i, j < number of levels
\* and is the estimate for the levels now at i and j: an operation that
\* changes the level set leaves no entry computed from the previous one.
C6_CacheFollowsLevelSet ==
  Alive =>
    \A p \in DOMAIN transforms :
      /\ InRange(levels, p[1])
      /\ InRange(levels, p[2])
      /\ transforms[p] = Estimate(levels, p)

KeepingOps ==
  {"add_level", "add_vertex", "add_fiducial", "add_edge", "add_model",
   "set_model_yaw", "delete_selected"}

\* C7: an editing operation that returns leaves every cache entry as it was,
\* and a get_transform that follows it returns, for each pair cached before
\* the edit, the value cached before the edit.
C7_EditsKeepCache ==
  [][(op' \in KeepingOps /\ status' = "ok")
       => /\ transforms' = transforms
          /\ \A p \in DOMAIN transforms :
               get_transform(transforms', levels', p[1], p[2]).t = transforms[p]]_vars

\* an edit after which a cached entry differs from what the levels now give
C7_Witness ==
  /\ op = "add_fiducial"
  /\ status = "ok"
  /\ InRange(levels, args[1])
  /\ \E p \in DOMAIN transforms :
       InRange(levels, p[1]) /\ InRange(levels, p[2])
         /\ transforms[p] # Estimate(levels, p)

\* C8: right after calculate_all_transforms returned on a Map of n >= 1
\* levels, the cache holds exactly the pairs (i, j), 0 <= i, j < n, each with
\* the estimate for the levels as they are.
C8_FullCachePopulation ==
  (op = "calculate_all_transforms" /\ status = "ok")
    => /\ Len(levels) >= 1
       /\ DOMAIN transforms = AllPairs(Len(levels))
       /\ \A p \in DOMAIN transforms : transforms[p] = Estimate(levels, p)

\* calculate_all_transforms on two levels, one of them edited since its load
C8_Witness ==
  /\ op = "calculate_all_transforms"
  /\ status = "ok"
  /\ Len(levels) = 2
  /\ TotalUnnamed(levels) > 0
  /\ Cardinality(DOMAIN transforms) = 4

\* C9 as claimed: right after a load_yaml that returned, the cache is empty.
C9_CacheEmptyAfterLoad ==
  (op = "load_yaml" /\ status = "ok") => DOMAIN transforms = {}

\* C9 as amended: right after a load_yaml that returned, the cache holds
\* exactly the pairs (i, j), 0 <= i, j < n, for the n >= 1 levels loaded, each
\* with the estimate for those levels.
C9_CacheFullAfterLoad ==
  (op = "load_yaml" /\ status = "ok")
    => /\ Len(levels) >= 1
       /\ DOMAIN transforms = AllPairs(Len(levels))
       /\ \A p \in DOMAIN transforms : transforms[p] = Estimate(levels, p)

\* a load of three levels into a Map that held levels before
C9_Witness ==
  /\ op = "load_yaml"
  /\ status = "ok"
  /\ Len(levels) = 3
  /\ Len(lifts) = 2
  /\ Cardinality(DOMAIN transforms) = 9

\* what calculate_all_transforms, having returned, made of the levels' scales,
\* given the pair whose transform divides the reference scale
ScalesNormalized(pair(_, _)) ==
  (op' = "calculate_all_transforms" /\ status' = "ok")
    => LET r == get_reference_level_idx(levels, reference_level_name)
           m == At(levels, r).drawing_meters_per_pixel
       IN  \A i \in 0..(Len(levels) - 1) :
             At(levels', i).drawing_meters_per_pixel =
               IF i = r THEN m
               ELSE FDiv(m, transforms'[pair(i, r)].scale)

FromLevelToReference(i, r) == LevelPair(i, r)
FromReferenceToLevel(i, r) == LevelPair(r, i)

\* C10 as claimed: calculate_all_transforms sets a non-reference level i's
\* drawing_meters_per_pixel to m / s, m the reference level's and s the scale
\* of get_transform(i, r), and leaves the reference level's as it is.
C10_ScaleFromLevelToReference == [][ScalesNormalized(FromLevelToReference)]_vars

\* C10 as amended: s is the scale of get_transform(r, i), the transform from
\* the reference level to level i.
C10_ScaleFromReferenceToLevel == [][ScalesNormalized(FromReferenceToLevel)]_vars

\* the reference level at 0.05 and a level the reference maps to with scale 2
C10_Witness ==
  /\ op = "calculate_all_transforms"
  /\ status = "ok"
  /\ \E i \in 0..(Len(levels) - 1) :
       LET r == get_reference_level_idx(levels, reference_level_name)
       IN  /\ i # r
           /\ At(levels, r).drawing_meters_per_pixel = Rat(1, 20)
           /\ transforms[LevelPair(r, i)].scale = Fl(2)
           /\ At(levels, i).drawing_meters_per_pixel = Rat(1, 40)


-----------------------------------------------------------------------------
(* Properties of the estimate, of the reference level and of the written   *)
(* document.                                                               *)

Finite(t) == t.scale.k = "fin" /\ t.dx.k = "fin" /\ t.dy.k = "fin"

Identity == Transform(Fl(1), Fl(0), Fl(0))

SharedFiducials(L, a, b) ==
  common_fiducials(At(L, a).fiducials, At(L, b).fiducials)

\* C11: a get_transform that has to estimate the transform between two levels
\* sharing fewer than two fiducial names fails with an error: it returns no
\* Transform and caches none.
C11_InsufficientFiducialsFail ==
  [][(op' = "get_transform" /\ InRange(levels, args'[1])
        /\ InRange(levels, args'[2])
        /\ LevelPair(args'[1], args'[2]) \notin DOMAIN transforms
        /\ Len(SharedFiducials(levels, args'[1], args'[2])) < 2)
       => (status' = "threw" /\ transforms' = transforms)]_vars

\* C12: get_transform(i, i) on a valid index i that has to estimate returns
\* scale 1, dx 0, dy 0, however many fiducials level i has.
C12_TransformIdentity ==
  [][(op' = "get_transform" /\ InRange(levels, args'[1])
        /\ args'[2] = args'[1]
        /\ LevelPair(args'[1], args'[2]) \notin DOMAIN transforms)
       => (status' = "ok" /\ ret' = Identity)]_vars

\* C18: calculate_all_transforms, called by the editor or by load_yaml, reads
\* levels[k] only for 0 <= k < number of levels.
C18_CalculateStaysInRange ==
  op \in {"calculate_all_transforms", "load_yaml"} => Alive

\* C20: in the state calculate_all_transforms left, on one or more levels
\* whose transforms are all defined, calculate_all_transforms again leaves
\* the cache and every level as they are.
C20_CalculateIdempotent ==
  (op = "calculate_all_transforms" /\ status = "ok" /\ Len(levels) >= 1
     /\ \A p \in DOMAIN transforms : Finite(transforms[p]))
    => LET c == calculate_all_transforms(transforms, levels,
                                         reference_level_name)
       IN  ~c.oob /\ c.levels = levels /\ c.transforms = transforms

\* calculate_all_transforms on two levels, all transforms defined, that set
\* the scale of a level other than the reference level to a new value
C20_Witness ==
  /\ op = "calculate_all_transforms"
  /\ status = "ok"
  /\ Len(levels) = 2
  /\ \A p \in DOMAIN transforms : Finite(transforms[p])
  /\ \E i \in 0..1 :
       /\ i # get_reference_level_idx(levels, reference_level_name)
       /\ transforms[LevelPair(1 - i, i)].scale # Fl(1)
       /\ At(levels, i).drawing_meters_per_pixel #
            At(levels, 1 - i).drawing_meters_per_pixel

\* the indices of the levels named so, the set being empty when none is
NamedIdxs(L, name) == { i \in 0..(Len(L) - 1) : At(L, i).name = name }

\* what a call for levels a and b, both valid, has to give: true, and the
\* point under the transform get_transform(a, b) gives
TransformedBy(a, b) ==
  LET t == IF LevelPair(a, b) \in DOMAIN transforms
           THEN transforms[LevelPair(a, b)]
           ELSE Estimate(levels, LevelPair(a, b))
      x == args'[2][1]
      y == args'[2][2]
  IN  /\ ret'.ok
      /\ ret'.to_point = <<FAdd(FMul(t.scale, x), t.dx),
                           FAdd(FMul(t.scale, y), t.dy)>>
      /\ transforms' = get_transform(transforms, levels, a, b).transforms

\* what a call that cannot resolve its levels has to give: false, the point
\* as it came and the cache as it was
RefusedUnchanged ==
  /\ ~ret'.ok
  /\ ret'.to_point = args'[2]
  /\ transforms' = transforms

\* C13: transform_between_levels returns false, to_point = from_point and
\* leaves the cache alone when a level name is not found or an index is
\* outside 0..n-1; otherwise it returns true and to_point = (scale * x + dx,
\* scale * y + dy) for (scale, dx, dy) = get_transform(from_idx, to_idx).
C13_TransformBetweenLevels ==
  [][/\ op' = "transform_between_levels"
          => /\ status' = "ok"
             /\ levels' = levels
             /\ IF InRange(levels, args'[1]) /\ InRange(levels, args'[3])
                THEN TransformedBy(args'[1], args'[3])
                ELSE RefusedUnchanged
     /\ op' = "transform_between_levels_by_name"
          => /\ status' = "ok"
             /\ levels' = levels
             /\ IF NamedIdxs(levels, args'[1]) = {}
                     \/ NamedIdxs(levels, args'[3]) = {}
                THEN RefusedUnchanged
                ELSE \E a \in NamedIdxs(levels, args'[1]),
                        b \in NamedIdxs(levels, args'[3]) :
                       TransformedBy(a, b)]_vars

\* a call by name, for two different levels, that moved the point
C13_Witness ==
  /\ op = "transform_between_levels_by_name"
  /\ status = "ok"
  /\ ret.ok
  /\ args[1] # args[3]
  /\ ret.to_point # args[2]
  /\ ret.to_point[1].k = "fin"

NamesDistinct(L) ==
  \A i \in 1..Len(L) : \A j \in 1..Len(L) : L[i].name = L[j].name => i = j

\* C14: add_level of a level whose name a level of the Map has leaves the
\* Map as it is; of any other level, it appends the level and leaves every
\* level before it, and everything else, as it is.  add_level and clear keep
\* the level names pairwise distinct.
C14_AddLevelUniqueAppendOnly ==
  [][/\ op' = "add_level"
          => /\ status' = "ok"
             /\ IF \E i \in 1..Len(levels) : levels[i].name = args'.name
                THEN mapState' = mapState
                ELSE /\ Len(levels') = Len(levels) + 1
                     /\ levels'[Len(levels')] = args'
                     /\ \A i \in 1..Len(levels) : levels'[i] = levels[i]
                     /\ UNCHANGED <<building_name, reference_level_name,
                                    lifts, transforms>>
     /\ (op' \in {"add_level", "clear"} /\ NamesDistinct(levels))
          => NamesDistinct(levels')]_vars

\* add_level of a level that differs from the level of its name in the Map,
\* which the Map, of two levels, still holds
C14_Witness ==
  /\ op = "add_level"
  /\ status = "ok"
  /\ Len(levels) = 2
  /\ \E i \in 1..Len(levels) : levels[i].name = args.name /\ levels[i] # args

Least(S) == CHOOSE i \in S : \A j \in S : i <= j

\* C15: get_reference_level_idx returns the first index of a level named
\* reference_level_name when that name is not empty and a level has it, and
\* 0 otherwise; it changes nothing of the Map.
C15_ReferenceLevelIdx ==
  [][op' = "get_reference_level_idx"
       => /\ status' = "ok"
          /\ mapState' = mapState
          /\ ret' = IF reference_level_name # ""
                       /\ NamedIdxs(levels, reference_level_name) # {}
                    THEN Least(NamedIdxs(levels, reference_level_name))
                    ELSE 0]_vars

\* the reference level found at an index other than 0
C15_Witness ==
  /\ op = "get_reference_level_idx"
  /\ status = "ok"
  /\ ret = 1
  /\ At(levels, 1).name = reference_level_name

\* scales a drawing may have relative to another
KnownScales == {Rat(1, 3), Rat(1, 2), Fl(1), Fl(2), Fl(3)}

\* the fiducials of F whose name a fiducial of G has, each with the first
\* fiducial of G of its name
FirstNamed(G, name) ==
  G[Least({j \in 1..Len(G) : G[j].name = name})]

Shared(F, G) ==
  { <<F[i], FirstNamed(G, F[i].name)>> :
      i \in {i \in 1..Len(F) : \E j \in 1..Len(G) : G[j].name = F[i].name} }

\* the translation that takes s times the point f to the point g
Offset(s, f, g) ==
  [dx |-> FSub(Fl(g.x), FMul(s, Fl(f.x))),
   dy |-> FSub(Fl(g.y), FMul(s, Fl(f.y)))]

\* F and G share two or more fiducial names, the shared fiducials of F lie at
\* pairwise distinct positions, and each shared fiducial's position on G is s
\* times its position on F, moved by t
Similar(F, G, s, t) ==
  /\ Cardinality(Shared(F, G)) >= 2
  /\ \A p \in Shared(F, G) : \A q \in Shared(F, G) :
       (p[1].x = q[1].x /\ p[1].y = q[1].y) => p = q
  /\ \A p \in Shared(F, G) : Offset(s, p[1], p[2]) = t

\* C17: the estimate get_transform returns for levels whose shared fiducials
\* a scale s > 0 and a translation (tx, ty) relate is scale = s, dx = tx,
\* dy = ty.
C17_EstimateRecoversSimilarity ==
  (op = "get_transform" /\ status = "ok")
    => LET F == At(levels, args[1]).fiducials
           G == At(levels, args[2]).fiducials
       IN  \A s \in KnownScales :
             \A p \in Shared(F, G) :
               Similar(F, G, s, Offset(s, p[1], p[2]))
                 => ret = Transform(s, Offset(s, p[1], p[2]).dx,
                                    Offset(s, p[1], p[2]).dy)

\* the estimate from three shared fiducials, those of the to level in another
\* order and followed by a second "a": scale 3, translation (-3, 5)
C17_Witness ==
  /\ op = "get_transform"
  /\ status = "ok"
  /\ ret = Transform(Fl(3), Fl(-3), Fl(5))
  /\ Cardinality(Shared(At(levels, args[1]).fiducials,
                        At(levels, args[2]).fiducials)) = 3
  /\ Len(At(levels, args[2]).fiducials) = 4

\* the orders a sequence may be put in
Orders(seq) ==
  { [i \in 1..Len(seq) |-> seq[f[i]]] : f \in Permutations(1..Len(seq)) }

\* the keys of a written map ascend, so each occurs once, and so do the keys
\* of every map in it
RECURSIVE KeysAscend(_)
KeysAscend(node) ==
  node.kind = "map"
    => /\ \A i \in 1..(Len(node.entries) - 1) :
            StrLess(node.entries[i][1], node.entries[i + 1][1])
       /\ \A i \in 1..Len(node.entries) : KeysAscend(node.entries[i][2])

\* C16: the document save_yaml wrote has the keys of every map in ascending
\* order, each once, and no reference_level_name when that name is empty;
\* a Map holding the same levels and lifts in another order writes the same
\* document.
C16_KeySortingDeterminism ==
  (op = "save_yaml" /\ status = "ok")
    => /\ KeysAscend(ret.file)
       /\ reference_level_name = ""
            => ~has_key(ret.file, "reference_level_name")
       /\ \A L2 \in Orders(levels) : \A lf2 \in Orders(lifts) :
            save_yaml(building_name, reference_level_name, L2, lf2) = ret.file

\* the level the Map M counts as its reference level
ReferenceLevel(M) ==
  At(M.levels, get_reference_level_idx(M.levels, M.reference_level_name))

\* C19: a Map of one or more levels, their names pairwise distinct, that is
\* saved and loaded into a new Map has there a reference level of the name
\* its own reference level has.
C19_ReferenceLevelRoundTrip ==
  (op = "save_yaml" /\ status = "ok" /\ Len(levels) >= 1
     /\ NamesDistinct(levels))
    => LET loaded == load_yaml_into(NewMap, LoadFile(ret.file, GoodDir))
       IN  /\ loaded.status = "ok"
           /\ ~loaded.oob
           /\ ReferenceLevel(loaded).name = ReferenceLevel(ThisMap).name

=============================================================================
